---- MODULE Spec2Model ----
(***************************************************************************)
(* Model of playfairs/file-counter, package scanner                       *)
(* (src/pkg/scanner/scanner.go): the Scanner's shared counters, the       *)
(* cancellation context, the bounded path channel, the walker goroutine   *)
(* (filepath.Walk with the callback of walkDirectory), the worker         *)
(* goroutines, the progress reporter and Start/Stop.                      *)
(***************************************************************************)
EXTENDS Integers, Sequences, FiniteSets, TLC

\* ------------------------------------------------------------------ bounds
\* workerCount is runtime.GOMAXPROCS(0) * 2 in the code: an even number >= 2.
WorkerCount == 2
\* capacity of pathChan; the code uses 1000, scaled down so that the walker
\* does block on a full queue with the small tree below.
QueueCap == 1
\* how many times the environment calls Stop()
MaxStops == 2

Workers == 1..WorkerCount

\* ------------------------------------------------------- the scanned tree
\* Entries are numbered in the order filepath.Walk meets them (readDirNames
\* sorts the names of a directory, so the children of a directory are visited
\* in increasing number).
\*   1  /        directory
\*   2  /a       file, 3 bytes
\*   3  /tmp     directory
\*   4  /tmp/f   file, 2 bytes
\*   5  /tmpx    directory, empty
Nodes == 1..5
Name == <<
  <<"/">>,
  <<"a">>,
  <<"t", "m", "p">>,
  <<"f">>,
  <<"t", "m", "p", "x">> >>
Parent == <<0, 1, 1, 3, 1>>
IsDir == <<TRUE, FALSE, TRUE, FALSE, TRUE>>
Size == <<0, 3, 0, 2, 0>>

\* the rootPath given to Start: the entry without a parent
Root == CHOOSE n \in Nodes : Parent[n] = 0

\* filepath.Join(dir, name) for clean absolute paths
Join(dir, name) ==
  IF dir = <<"/">> THEN dir \o name ELSE dir \o <<"/">> \o name

RECURSIVE PathOf(_)
PathOf(n) == IF n = Root THEN Name[Root] ELSE Join(PathOf(Parent[n]), Name[n])

\* the sorted directory listing of d, as node numbers
RECURSIVE SortedSeq(_)
SortedSeq(S) ==
  IF S = {} THEN <<>>
  ELSE LET m == CHOOSE x \in S : \A y \in S : x <= y
       IN <<m>> \o SortedSeq(S \ {m})

Children(d) == SortedSeq({n \in Nodes : Parent[n] = d})

\* the failure scenarios of the filesystem: sc[1] is the set of entries the
\* walker cannot visit (Lstat or the directory listing fails), sc[2] the set
\* of entries whose Lstat fails in the worker (vanished or denied between
\* discovery and processing).
Scenarios ==
  { <<{}, {}>>, <<{3}, {}>>, <<{2}, {}>>, <<{1}, {}>>,
    <<{}, {4}>>, <<{}, {3}>>, <<{3}, {2}>> }

\* --------------------------------------------------------------- the state
VARIABLES
  walkErr, statErr,       \* the filesystem's failures (fixed during a scan)
  fileCount, dirCount, errorCount, skippedCount, bytesScanned,
  lastError, currentPath, \* <<>> is the empty string
  cancelled,              \* s.ctx.Done() is closed
  pathChan, chanClosed,   \* the buffered channel of Start
  wg,                     \* the WaitGroup counter
  wpc, wpath,             \* per worker: position, path held
  kpc, kstack, kcur, kerr,\* walker: position, walk frames, callback arguments
  rpc, tickerOn, tickBuf, \* reporter position, the ticker and its channel
  spc, result,            \* Start: position, the ScanResult
  stopCalls, pushed, processed, lateSample, \* history
  kseen,                  \* history: the walker's first select saw ctx.Done()
  preStop,                \* history: Stop() was called before Start
  call, arg, ret          \* a call of one of the package's pure functions

counters == <<fileCount, dirCount, errorCount, skippedCount, bytesScanned>>
status == <<lastError, currentPath>>
fs == <<walkErr, statErr>>
pure == <<call, arg, ret>>
chan == <<pathChan, chanClosed>>
workerVars == <<wg, wpc, wpath>>
walkerVars == <<kpc, kstack, kcur, kerr, kseen>>
reporterVars == <<rpc, tickerOn, tickBuf, lateSample>>
startVars == <<spc, result>>
history == <<stopCalls, pushed, processed>>
vars == <<fs, pure, preStop, counters, status, cancelled, chan, workerVars,
          walkerVars, reporterVars, startVars, history>>

NoResult == <<>>

\* NewScanner: zero counters, a fresh context, a running ticker
NewScanner ==
  /\ fileCount = 0 /\ dirCount = 0 /\ errorCount = 0
  /\ skippedCount = 0 /\ bytesScanned = 0
  /\ lastError = <<>> /\ currentPath = <<>>
  /\ cancelled = FALSE
  /\ pathChan = <<>> /\ chanClosed = FALSE
  /\ wg = 0
  /\ wpc = [w \in Workers |-> "idle"]
  /\ wpath = [w \in Workers |-> 0]
  /\ kpc = "idle" /\ kstack = <<>> /\ kcur = 0 /\ kerr = FALSE
  /\ rpc = "idle" /\ tickerOn = TRUE /\ tickBuf = 0
  /\ spc = "idle" /\ result = NoResult
  /\ stopCalls = 0
  /\ pushed = [n \in Nodes |-> 0]
  /\ processed = [n \in Nodes |-> 0]
  /\ lateSample = FALSE
  /\ kseen = FALSE
  /\ preStop = FALSE

\* no call of a pure function is under way
NoCall == call = "none" /\ arg = <<>> /\ ret = <<>>

Init ==
  /\ \E sc \in Scenarios : walkErr = sc[1] /\ statErr = sc[2]
  /\ NewScanner
  /\ NoCall


\* ------------------------------------------------------------ classifier
HasPrefix(s, p) == Len(s) >= Len(p) /\ SubSeq(s, 1, Len(p)) = p

skipPaths == <<
  <<"/", "p", "r", "o", "c">>,
  <<"/", "s", "y", "s">>,
  <<"/", "d", "e", "v">>,
  <<"/", "r", "u", "n">>,
  <<"/", "t", "m", "p">>,
  <<"/", "v", "a", "r", "/", "r", "u", "n">>,
  <<"/", "v", "a", "r", "/", "l", "o", "c", "k">>,
  <<"/", "v", "a", "r", "/", "t", "m", "p">> >>

ShouldSkipPathNoSeparator(path) ==
  \E i \in 1..Len(skipPaths) : HasPrefix(path, skipPaths[i])

ShouldSkipPath(path) ==
  \E i \in 1..Len(skipPaths) :
    path = skipPaths[i] \/ HasPrefix(path, skipPaths[i] \o <<"/">>)

\* ------------------------------------------------------------ FormatBytes
\* An int64 byte count is the sequence of its digits to the base 1024, lowest
\* digit first, without leading zero digits (zero is <<0>>): a count of
\* Int64Digits digits whose highest digit is below 8 is below 2^63.
unit == 1024
Int64Digits == 7

\* bytes / unit, and n /= unit
DivUnit(n) == IF Len(n) >= 2 THEN Tail(n) ELSE <<0>>

\* for n := bytes / unit; n >= unit; n /= unit { div *= unit; exp++ }
RECURSIVE FormatLoop(_, _)
FormatLoop(n, exp) ==
  IF Len(n) >= 2 THEN FormatLoop(DivUnit(n), exp + 1) ELSE exp

Exponent(bytes) == FormatLoop(DivUnit(bytes), 0)

RECURSIVE BitLen(_)
BitLen(d) == IF d = 0 THEN 0 ELSE 1 + BitLen(d \div 2)

RECURSIVE Pow2(_)
Pow2(e) == IF e = 0 THEN 1 ELSE 2 * Pow2(e - 1)

\* n + c * unit^(i-1), for c <= unit
RECURSIVE AddAt(_, _, _)
AddAt(n, i, c) ==
  IF c = 0 THEN n
  ELSE IF i > Len(n) THEN Append(n, c)
  ELSE LET t == n[i] + c
       IN AddAt([n EXCEPT ![i] = t % unit], i + 1, t \div unit)

\* float64(bytes): the count rounded to 53 significant bits, ties to even.
\* At most 10 bits are dropped from an int64, all of them in the lowest digit.
Float64(n) ==
  LET bits == 10 * (Len(n) - 1) + BitLen(n[Len(n)])
      drop == bits - 53
  IN IF drop <= 0 THEN n
     ELSE LET m == Pow2(drop)
              r == n[1] % m
              kept == IF drop < 10 THEN (n[1] \div m) % 2 ELSE n[2] % 2
              down == [n EXCEPT ![1] = n[1] - r]
          IN IF 2 * r > m \/ (2 * r = m /\ kept = 1)
             THEN AddAt(down, 1, m)
             ELSE down

\* n * c for a small c
RECURSIVE MulSmall(_, _, _, _)
MulSmall(n, c, i, carry) ==
  IF i > Len(n) THEN (IF carry = 0 THEN <<>> ELSE <<carry>>)
  ELSE LET t == n[i] * c + carry
       IN <<t % unit>> \o MulSmall(n, c, i + 1, t \div unit)

\* the value of a short digit sequence
RECURSIVE Value(_)
Value(n) == IF n = <<>> THEN 0 ELSE n[1] + unit * Value(Tail(n))

\* how the digits below the point compare with one half: -1, 0, 1
CompareHalf(low) ==
  LET top == low[Len(low)]
      rest == {i \in 1..(Len(low) - 1) : low[i] # 0}
  IN IF top > unit \div 2 THEN 1
     ELSE IF top < unit \div 2 THEN -1
     ELSE IF rest # {} THEN 1 ELSE 0

TenthsTruncated(f, shift) ==
  Value(SubSeq(MulSmall(f, 10, 1, 0), shift + 1, Len(MulSmall(f, 10, 1, 0))))

\* fmt's %.1f of f / unit^shift, as a number of tenths: the decimal nearest
\* to the binary value, ties to even
Tenths(f, shift) ==
  LET x == MulSmall(f, 10, 1, 0)
      low == SubSeq(x, 1, shift)
      hi == Value(SubSeq(x, shift + 1, Len(x)))
      c == CompareHalf(low)
  IN IF c > 0 \/ (c = 0 /\ hi % 2 = 1) THEN hi + 1 ELSE hi

letters == <<"K", "M", "G", "T", "P", "E">>

\* The string FormatBytes returns: [letter |-> "", num |-> n] is "n B",
\* [letter |-> "K", num |-> 15] is "1.5 KB".
FormatBytes(bytes) ==
  IF Len(bytes) < 2
  THEN [letter |-> "", num |-> bytes[1]]
  ELSE LET exp == Exponent(bytes)
       IN [letter |-> letters[exp + 1],
           num |-> Tenths(Float64(bytes), exp + 1)]

\* ---------------------------------------------------------- ProcessPath
\* One call of ProcessPath on the path of entry n. The counter updates are
\* separate atomic adds in the code; they commute and nothing reads the
\* counters for the result before every worker has left, so the call is one
\* step here.
ProcessPathSkipFirst(n) ==
  /\ skippedCount' = IF ShouldSkipPath(PathOf(n)) THEN skippedCount + 1
                     ELSE skippedCount
  /\ IF n \in statErr
     THEN /\ errorCount' = errorCount + 1
          /\ lastError' = <<"info", PathOf(n)>>
          /\ UNCHANGED <<fileCount, dirCount, bytesScanned>>
     ELSE /\ IF IsDir[n]
             THEN dirCount' = dirCount + 1 /\ UNCHANGED <<fileCount, bytesScanned>>
             ELSE /\ fileCount' = fileCount + 1
                  /\ bytesScanned' = bytesScanned + Size[n]
                  /\ UNCHANGED dirCount
          /\ UNCHANGED <<errorCount, lastError>>

ProcessPathSkipExcludes(n) ==
  IF n \in statErr
  THEN /\ errorCount' = errorCount + 1
       /\ lastError' = <<"info", PathOf(n)>>
       /\ UNCHANGED <<fileCount, dirCount, bytesScanned, skippedCount>>
  ELSE IF ShouldSkipPath(PathOf(n))
  THEN /\ skippedCount' = skippedCount + 1
       /\ UNCHANGED <<fileCount, dirCount, bytesScanned, errorCount, lastError>>
  ELSE /\ IF IsDir[n]
          THEN dirCount' = dirCount + 1 /\ UNCHANGED <<fileCount, bytesScanned>>
          ELSE /\ fileCount' = fileCount + 1
               /\ bytesScanned' = bytesScanned + Size[n]
               /\ UNCHANGED dirCount
       /\ UNCHANGED <<skippedCount, errorCount, lastError>>

ProcessPath(n) ==
  IF n \in statErr
  THEN /\ errorCount' = errorCount + 1
       /\ lastError' = <<"info", PathOf(n)>>
       /\ UNCHANGED <<fileCount, dirCount, bytesScanned, skippedCount>>
  ELSE /\ IF IsDir[n]
          THEN dirCount' = dirCount + 1 /\ UNCHANGED <<fileCount, bytesScanned>>
          ELSE /\ fileCount' = fileCount + 1
               /\ bytesScanned' = bytesScanned + Size[n]
               /\ UNCHANGED dirCount
       /\ skippedCount' = IF ShouldSkipPath(PathOf(n)) THEN skippedCount + 1
                          ELSE skippedCount
       /\ UNCHANGED <<errorCount, lastError>>

\* ------------------------------------------------------------------ Stop
\* s.cancel(): closes ctx.Done(); a second call finds it closed.
StopToggles ==
  /\ stopCalls < MaxStops
  /\ stopCalls' = stopCalls + 1
  /\ cancelled' = ~cancelled
  /\ UNCHANGED <<fs, pure, preStop, counters, status, chan, workerVars, walkerVars,
                 reporterVars, startVars, pushed, processed>>

Stop ==
  /\ stopCalls < MaxStops
  /\ stopCalls' = stopCalls + 1
  /\ cancelled' = TRUE
  /\ UNCHANGED <<fs, pure, preStop, counters, status, chan, workerVars, walkerVars,
                 reporterVars, startVars, pushed, processed>>

\* ---------------------------------------------------------------- worker
\* the receive of the select: the value at the head leaves the channel
RecvPeek(q) == q
Recv(q) == Tail(q)

\* case path, ok := <-pathChan with a value buffered
WorkerRecv(w) ==
  /\ wpc[w] = "select"
  /\ pathChan # <<>>
  /\ wpath' = [wpath EXCEPT ![w] = Head(pathChan)]
  /\ pathChan' = Recv(pathChan)
  /\ wpc' = [wpc EXCEPT ![w] = "process"]
  /\ UNCHANGED <<fs, pure, preStop, counters, status, cancelled, chanClosed, wg, walkerVars,
                 reporterVars, startVars, history>>

\* the receive yields !ok: the channel is closed and drained
ChanDoneOnEmpty(q, closed) == q = <<>>
ChanDone(q, closed) == q = <<>> /\ closed

\* return (on !ok or on <-s.ctx.Done()), then the deferred wg.Done()
WorkerExit(w) ==
  /\ wpc[w] = "select"
  /\ ChanDone(pathChan, chanClosed) \/ cancelled
  /\ wpc' = [wpc EXCEPT ![w] = "exited"]
  /\ wg' = wg - 1
  /\ UNCHANGED <<fs, pure, preStop, counters, status, cancelled, chan, wpath, walkerVars,
                 reporterVars, startVars, history>>

WorkerProcess(w) ==
  /\ wpc[w] = "process"
  /\ ProcessPath(wpath[w])
  /\ processed' = [processed EXCEPT ![wpath[w]] = @ + 1]
  /\ wpc' = [wpc EXCEPT ![w] = "select"]
  /\ wpath' = [wpath EXCEPT ![w] = 0]
  /\ UNCHANGED <<fs, pure, preStop, currentPath, cancelled, chan, wg, walkerVars,
                 reporterVars, startVars, stopCalls, pushed>>

worker(w) == WorkerRecv(w) \/ WorkerExit(w) \/ WorkerProcess(w)


\* ---------------------------------------------------------------- walker
\* A frame <<d, i>> of kstack is one activation of filepath.walk on the
\* directory d whose loop over the sorted names is at index i.
RECURSIVE Unwind(_)
Unwind(st) ==
  IF st = <<>> THEN st
  ELSE LET top == st[Len(st)]
       IN IF top[2] > Len(Children(top[1]))
          THEN Unwind(SubSeq(st, 1, Len(st) - 1))
          ELSE st

\* What filepath.Walk / filepath.walk do with the callback's return value for
\* entry c (err: the callback was given an error; skip: it returned SkipDir).
\*  - the root: descend only if it is a listed directory and no SkipDir
\*  - an entry that could not be read: nil and SkipDir both go on with the
\*    next sibling
\*  - a file: SkipDir leaves the containing directory (its remaining
\*    entries are not visited)
\*  - a directory: SkipDir skips its contents, nil descends into it
AfterCallbackErrorAborts(st, c, err, skip) ==
  Unwind(
    IF err THEN <<>>
    ELSE IF c = Root
    THEN IF skip \/ ~IsDir[c] THEN <<>> ELSE << <<c, 1>> >>
    ELSE IF ~IsDir[c]
         THEN IF skip THEN SubSeq(st, 1, Len(st) - 1) ELSE st
    ELSE IF skip THEN st ELSE Append(st, <<c, 1>>))

AfterCallback(st, c, err, skip) ==
  Unwind(
    IF c = Root
    THEN IF err \/ skip \/ ~IsDir[c] THEN <<>> ELSE << <<c, 1>> >>
    ELSE IF err THEN st
    ELSE IF ~IsDir[c]
         THEN IF skip THEN SubSeq(st, 1, Len(st) - 1) ELSE st
    ELSE IF skip THEN st ELSE Append(st, <<c, 1>>))

WalkPc(st) == IF st = <<>> THEN "close" ELSE "walk"

\* filepath.Walk: os.Lstat(root), and for a directory the listing, before the
\* callback is called for the root
WalkRoot ==
  /\ kpc = "root"
  /\ kcur' = Root
  /\ kerr' = (Root \in walkErr)
  /\ kpc' = "check"
  /\ UNCHANGED <<fs, pure, preStop, counters, status, cancelled, chan,
                 workerVars, kstack, kseen, reporterVars, startVars, history>>

\* filepath.walk, one turn of the loop over names: lstat(filename), for a
\* directory the listing, before the callback is called for the entry
WalkEntry ==
  /\ kpc = "walk"
  /\ LET top == kstack[Len(kstack)]
         c == Children(top[1])[top[2]]
     IN /\ kstack' = [kstack EXCEPT ![Len(kstack)] = <<top[1], top[2] + 1>>]
        /\ kcur' = c
        /\ kerr' = (c \in walkErr)
  /\ kpc' = "check"
  /\ UNCHANGED <<fs, pure, preStop, counters, status, cancelled, chan,
                 workerVars, kseen, reporterVars, startVars, history>>

CallbackCheckErrFirst ==
  /\ kpc = "check"
  /\ IF kerr
     THEN /\ kpc' = "err"
          /\ UNCHANGED <<kstack, currentPath, kcur, kerr, kseen>>
     ELSE IF cancelled
     THEN /\ kstack' = AfterCallback(kstack, kcur, kerr, TRUE)
          /\ kpc' = WalkPc(kstack')
          /\ kcur' = 0 /\ kerr' = FALSE
          /\ kseen' = TRUE
          /\ UNCHANGED currentPath
     ELSE /\ kpc' = "send"
          /\ currentPath' = PathOf(kcur)
          /\ UNCHANGED <<kstack, kcur, kerr, kseen>>
  /\ UNCHANGED <<fs, pure, preStop, counters, lastError, cancelled, chan, workerVars,
                 reporterVars, startVars, history>>

\* the callback's first select (default case when the context is live), the
\* test of err, and setCurrentPath
CallbackCheck ==
  /\ kpc = "check"
  /\ IF cancelled
     THEN /\ kstack' = AfterCallback(kstack, kcur, kerr, TRUE)
          /\ kpc' = WalkPc(kstack')
          /\ kcur' = 0 /\ kerr' = FALSE
          /\ kseen' = TRUE
          /\ UNCHANGED currentPath
     ELSE IF kerr
     THEN /\ kpc' = "err"
          /\ UNCHANGED <<kstack, currentPath, kcur, kerr, kseen>>
     ELSE /\ kpc' = "send"
          /\ currentPath' = PathOf(kcur)
          /\ UNCHANGED <<kstack, kcur, kerr, kseen>>
  /\ UNCHANGED <<fs, pure, preStop, counters, lastError, cancelled, chan, workerVars,
                 reporterVars, startVars, history>>

CallbackErrorUncounted ==
  /\ kpc = "err"
  /\ lastError' = <<"access", PathOf(kcur)>>
  /\ kstack' = AfterCallback(kstack, kcur, TRUE, FALSE)
  /\ kpc' = WalkPc(kstack')
  /\ kcur' = 0 /\ kerr' = FALSE
  /\ UNCHANGED <<fs, pure, preStop, kseen, counters, currentPath, cancelled, chan, workerVars,
                 reporterVars, startVars, history>>

\* atomic.AddInt64(&s.errorCount, 1); s.setLastError(...); return nil
CallbackError ==
  /\ kpc = "err"
  /\ errorCount' = errorCount + 1
  /\ lastError' = <<"access", PathOf(kcur)>>
  /\ kstack' = AfterCallback(kstack, kcur, TRUE, FALSE)
  /\ kpc' = WalkPc(kstack')
  /\ kcur' = 0 /\ kerr' = FALSE
  /\ UNCHANGED <<fs, pure, preStop, kseen, fileCount, dirCount, skippedCount, bytesScanned,
                 currentPath, cancelled, chan, workerVars,
                 reporterVars, startVars, history>>

\* the send case of the second select is ready when the buffer has room
SendReadyUnbounded(q) == TRUE
SendReady(q) == Len(q) < QueueCap

\* case pathChan <- path: ; return nil
CallbackSend ==
  /\ kpc = "send"
  /\ SendReady(pathChan)
  /\ pathChan' = Append(pathChan, kcur)
  /\ pushed' = [pushed EXCEPT ![kcur] = @ + 1]
  /\ kstack' = AfterCallback(kstack, kcur, FALSE, FALSE)
  /\ kpc' = WalkPc(kstack')
  /\ kcur' = 0 /\ kerr' = FALSE
  /\ UNCHANGED <<fs, pure, preStop, kseen, counters, status, cancelled, chanClosed, workerVars,
                 reporterVars, startVars, stopCalls, processed>>

\* case <-s.ctx.Done(): return filepath.SkipDir
CallbackSendCancelled ==
  /\ kpc = "send"
  /\ cancelled
  /\ kstack' = AfterCallback(kstack, kcur, FALSE, TRUE)
  /\ kpc' = WalkPc(kstack')
  /\ kcur' = 0 /\ kerr' = FALSE
  /\ UNCHANGED <<fs, pure, preStop, kseen, counters, status, cancelled, chan, workerVars,
                 reporterVars, startVars, history>>

\* filepath.Walk has returned: the deferred close(pathChan)
WalkerLeavesOpen ==
  /\ kpc = "close"
  /\ kpc' = "done"
  /\ UNCHANGED <<fs, pure, preStop, kseen, counters, status, cancelled, chan, workerVars,
                 kstack, kcur, kerr, reporterVars, startVars, history>>

WalkerClose ==
  /\ kpc = "close"
  /\ chanClosed' = TRUE
  /\ kpc' = "done"
  /\ UNCHANGED <<fs, pure, preStop, kseen, counters, status, cancelled, pathChan, workerVars,
                 kstack, kcur, kerr, reporterVars, startVars, history>>

walkDirectory ==
  \/ WalkRoot \/ WalkEntry \/ CallbackCheck \/ CallbackError
  \/ CallbackSend \/ CallbackSendCancelled \/ WalkerClose

\* -------------------------------------------------------------- reporter
\* the ticker of NewScanner delivers a tick into its channel (one slot); a
\* tick that finds the slot taken is dropped
Tick ==
  /\ tickerOn
  /\ tickBuf = 0
  /\ tickBuf' = 1
  /\ UNCHANGED <<fs, pure, preStop, counters, status, cancelled, chan, workerVars, walkerVars,
                 rpc, tickerOn, lateSample, startVars, history>>

\* case <-s.progressTicker.C:
ReporterTick ==
  /\ rpc = "select"
  /\ tickBuf = 1
  /\ tickBuf' = 0
  /\ rpc' = "render"
  /\ UNCHANGED <<fs, pure, preStop, counters, status, cancelled, chan, workerVars, walkerVars,
                 tickerOn, lateSample, startVars, history>>

\* the loads of the counters and the status strings, and the prints
ReporterRender ==
  /\ rpc = "render"
  /\ rpc' = "select"
  /\ lateSample' = (lateSample \/ spc = "returned")
  /\ UNCHANGED <<fs, pure, preStop, counters, status, cancelled, chan, workerVars, walkerVars,
                 tickerOn, tickBuf, startVars, history>>

\* case <-s.ctx.Done(): return
ReporterExit ==
  /\ rpc = "select"
  /\ cancelled
  /\ rpc' = "exited"
  /\ UNCHANGED <<fs, pure, preStop, counters, status, cancelled, chan, workerVars, walkerVars,
                 tickerOn, tickBuf, lateSample, startVars, history>>

displayProgress == ReporterTick \/ ReporterRender \/ ReporterExit

\* ----------------------------------------------------------------- Start
\* go s.displayProgress(); make(chan string, ...); wg.Add(1) and go s.worker
\* for every worker; go func() { defer close(pathChan); s.walkDirectory }()
StartLaunch ==
  /\ spc = "idle"
  /\ rpc' = "select"
  /\ wg' = WorkerCount
  /\ wpc' = [w \in Workers |-> "select"]
  /\ kpc' = "root"
  /\ spc' = "wait"
  /\ preStop' = cancelled
  /\ UNCHANGED <<fs, pure, counters, status, cancelled, chan, wpath, kstack,
                 kcur, kerr, kseen, tickerOn, tickBuf, lateSample, result,
                 history>>

\* wg.Wait() returns when the counter is zero
WaitReadyEarly(n) == n <= 1
WaitReady(n) == n = 0

StartWait ==
  /\ spc = "wait"
  /\ WaitReady(wg)
  /\ spc' = "stopTicker"
  /\ UNCHANGED <<fs, pure, preStop, counters, status, cancelled, chan, workerVars, walkerVars,
                 reporterVars, result, history>>

\* s.progressTicker.Stop(): no tick is sent any more. The channel is not
\* closed; whether a tick already sent stays readable depends on the Go
\* release the program is built with, so both outcomes are possible.
StartStopTicker ==
  /\ spc = "stopTicker"
  /\ tickerOn' = FALSE
  /\ tickBuf' \in {tickBuf, 0}
  /\ spc' = "build"
  /\ UNCHANGED <<fs, pure, preStop, counters, status, cancelled, chan, workerVars, walkerVars,
                 rpc, lateSample, result, history>>

\* the atomic loads into the ScanResult and the return. The loads are one
\* step: at this point only the walker can still change a counter
\* (errorCount, at most once), and one step already yields both orders.
StartReturn ==
  /\ spc = "build"
  /\ result' = [TotalFiles |-> fileCount, TotalDirs |-> dirCount,
                TotalErrors |-> errorCount, TotalSkipped |-> skippedCount,
                TotalBytes |-> bytesScanned]
  /\ spc' = "returned"
  /\ UNCHANGED <<fs, pure, preStop, counters, status, cancelled, chan, workerVars, walkerVars,
                 reporterVars, history>>

Start == StartLaunch \/ StartWait \/ StartStopTicker \/ StartReturn

\* --------------------------------------------------------- specification
Next ==
  \/ Start
  \/ Stop
  \/ walkDirectory
  \/ \E w \in Workers : worker(w)
  \/ displayProgress
  \/ Tick

Spec == Init /\ [][Next]_vars

\* The scan without the reporter, which only reads: the steps that decide
\* whether Start returns.
NextCore ==
  \/ Start
  \/ Stop
  \/ walkDirectory
  \/ \E w \in Workers : worker(w)

\* The Go scheduler runs every goroutine that can take a step; Stop() is the
\* environment's and may never come.
FairSpec ==
  /\ Init /\ [][NextCore]_vars
  /\ WF_vars(Start)
  /\ WF_vars(walkDirectory)
  /\ \A w \in Workers : WF_vars(worker(w))


\* ------------------------------------------- calls of the pure functions
\* ShouldSkipPath and FormatBytes read no state of the Scanner: one call of
\* either, on an argument drawn from the sets below, next to a fresh Scanner.
SkipInputs ==
  UNION { { skipPaths[i],
            skipPaths[i] \o <<"/">>,
            skipPaths[i] \o <<"/", "x">>,
            skipPaths[i] \o <<"x">>,
            skipPaths[i] \o <<"f", "s">>,
            SubSeq(skipPaths[i], 1, Len(skipPaths[i]) - 1),
            Tail(skipPaths[i]),
            <<"/", "x">> \o skipPaths[i] } : i \in 1..Len(skipPaths) }
  \cup { <<>>, <<"/">>, <<"/", "v", "a", "r">>,
         <<"/", "v", "a", "r", "/", "l", "o", "g">>,
         <<"/", "h", "o", "m", "e">>, <<"/", "e", "t", "c">>,
         <<"/", "u", "s", "r">>,
         <<"/", "d", "e", "v", "/", "n", "u", "l", "l">> }

TopDigits == {0, 1, 7, 8, 512, 1023}
SecondDigits == {0, 51, 52, 256, 512, 768, 1023}
FillDigits == {0, 1023}
LowDigits == {0, 1, 1023}

FormatInputs ==
  { [i \in 1..len |->
       IF i = len THEN top
       ELSE IF i = len - 1 THEN second
       ELSE IF i = 1 THEN low ELSE fill] :
    <<len, top, second, fill, low>> \in
      { t \in (1..Int64Digits) \X TopDigits \X SecondDigits
                 \X FillDigits \X LowDigits :
          /\ t[1] = 1 \/ t[2] >= 1
          /\ t[1] = Int64Digits => t[2] < 8 } }

scanVars ==
  <<fs, preStop, counters, status, cancelled, chan, workerVars, walkerVars,
    reporterVars, startVars, history>>

InitPure ==
  /\ walkErr = {} /\ statErr = {}
  /\ NewScanner
  /\ \/ call = "skip" /\ arg \in SkipInputs
     \/ call = "format" /\ arg \in FormatInputs
  /\ ret = <<>>

SkipCall ==
  /\ call = "skip" /\ ret = <<>>
  /\ ret' = <<ShouldSkipPath(arg)>>
  /\ UNCHANGED <<scanVars, call, arg>>

FormatCall ==
  /\ call = "format" /\ ret = <<>>
  /\ ret' = <<FormatBytes(arg)>>
  /\ UNCHANGED <<scanVars, call, arg>>

NextPure == SkipCall \/ FormatCall

PureSpec == InitPure /\ [][NextPure]_vars

\* =================================================================
\* Properties
\* =================================================================
Returned == spc = "returned"
AllWorkersExited == \A w \in Workers : wpc[w] = "exited"

\* what an uncancelled scan of the tree is to report: the entries the walk
\* reaches, those it hands to the workers, and the totals over them
RECURSIVE Reached(_)
Reached(n) ==
  n = Root \/ (Parent[n] \notin walkErr /\ Reached(Parent[n]))

Visited == {n \in Nodes : Reached(n)}
Handed == Visited \ walkErr
Counted == Handed \ statErr

RECURSIVE SumSize(_)
SumSize(S) ==
  IF S = {} THEN 0
  ELSE LET n == CHOOSE x \in S : TRUE IN Size[n] + SumSize(S \ {n})

FullFiles == Cardinality({n \in Counted : ~IsDir[n]})
FullDirs == Cardinality({n \in Counted : IsDir[n]})
FullErrors == Cardinality(Visited \cap walkErr) + Cardinality(Handed \cap statErr)
FullSkipped == Cardinality({n \in Counted : ShouldSkipPath(PathOf(n))})
FullBytes == SumSize({n \in Counted : ~IsDir[n]})

\* ---- C1
\* C1: under fair scheduling of Start, the walker and the workers, and with
\* Stop() called at any point or never, Start eventually returns its result.
C1_StartReturns == <>Returned

\* Start has returned from a cancelled scan whose walker was still blocked
\* in its send on a full queue
C1_Witness ==
  /\ Returned /\ cancelled
  /\ kpc = "send" /\ Len(pathChan) = QueueCap

\* ---- C2
\* C2 as stated, for a root that can be read: after an uncancelled scan
\* files + dirs + errors equals the number of entries of the tree.
C2_EveryEntryCounted ==
  (Returned /\ ~cancelled /\ Root \notin walkErr) =>
    result.TotalFiles + result.TotalDirs + result.TotalErrors
      = Cardinality(Nodes)

\* C2 amended: after an uncancelled scan files + dirs + errors equals the
\* number of entries the walk reaches (the root and every entry whose
\* ancestors could all be listed).
C2_EveryVisitedEntryCounted ==
  (Returned /\ ~cancelled) =>
    result.TotalFiles + result.TotalDirs + result.TotalErrors
      = Cardinality(Visited)

\* an uncancelled scan with one failure in the walker (a directory that
\* holds an entry) and one in a worker has returned
C2_Witness ==
  /\ Returned /\ ~cancelled
  /\ walkErr = {3} /\ statErr = {2}
  /\ result.TotalErrors = 2
  /\ result.TotalDirs = 2

\* ---- C3
\* C3: an uncancelled scan of a tree without failures reports the number of
\* non-directories, the number of directories (root included), the sum of the
\* sizes of the non-directories, and no error.
C3_ReadableTreeTotals ==
  (Returned /\ ~cancelled /\ walkErr = {} /\ statErr = {}) =>
    /\ result.TotalFiles = Cardinality({n \in Nodes : ~IsDir[n]})
    /\ result.TotalDirs = Cardinality({n \in Nodes : IsDir[n]})
    /\ result.TotalBytes = SumSize({n \in Nodes : ~IsDir[n]})
    /\ result.TotalErrors = 0

C3_Witness ==
  /\ Returned /\ ~cancelled /\ walkErr = {} /\ statErr = {}
  /\ result.TotalFiles = 2 /\ result.TotalDirs = 3 /\ result.TotalBytes = 5

\* ---- C4
\* C4: whenever Start has returned, after a cancellation at any point or
\* none, no total of the result exceeds the total of an uncancelled scan of
\* the same tree.
C4_CancelledWithinFull ==
  Returned =>
    /\ result.TotalFiles <= FullFiles
    /\ result.TotalDirs <= FullDirs
    /\ result.TotalErrors <= FullErrors
    /\ result.TotalSkipped <= FullSkipped
    /\ result.TotalBytes <= FullBytes

\* a cancelled scan has returned with part of the tree counted
C4_Witness ==
  /\ Returned /\ cancelled
  /\ result.TotalDirs > 0
  /\ result.TotalFiles < FullFiles
  /\ pathChan # <<>>


\* ---- C5
\* where the path of entry n is: in the queue, in a worker's hand
InQueue(n) == Cardinality({i \in 1..Len(pathChan) : pathChan[i] = n})
Holding(n) == Cardinality({w \in Workers : wpc[w] = "process" /\ wpath[w] = n})

\* C5: every pushed path is in exactly one place (still queued, held by one
\* worker, or processed once), so none is received twice or processed twice;
\* a worker of an uncancelled scan leaves only when the queue is closed and
\* drained; and when Start returns from an uncancelled scan every pushed path
\* has been processed exactly once.
C5_ExactlyOnce ==
  /\ \A n \in Nodes :
       /\ pushed[n] <= 1
       /\ InQueue(n) + Holding(n) + processed[n] = pushed[n]
  /\ (~cancelled /\ \E w \in Workers : wpc[w] = "exited") =>
       (chanClosed /\ pathChan = <<>>)
  /\ (Returned /\ ~cancelled) =>
       \A n \in Nodes : processed[n] = pushed[n] /\ (n \in Handed <=> pushed[n] = 1)

\* an uncancelled scan in which the walker pushed every entry has returned
C5_Witness ==
  /\ Returned /\ ~cancelled
  /\ \A n \in Nodes : pushed[n] = 1 /\ processed[n] = 1

\* ---- C6
\* C6: the signal, once raised, stays raised; every call of Stop leaves it
\* raised and changes nothing else, so a call that finds it raised changes
\* nothing of the scan at all.
C6_StopIdempotent ==
  [][ /\ cancelled => cancelled'
      /\ stopCalls' # stopCalls =>
           /\ cancelled'
           /\ UNCHANGED <<fs, pure, preStop, counters, status, chan,
                          workerVars, walkerVars, reporterVars, startVars,
                          pushed, processed>>
    ]_vars

\* Stop has been called a second time while the scan was running
C6_Witness ==
  /\ stopCalls >= 2 /\ cancelled
  /\ spc = "wait"
  /\ \E w \in Workers : wpc[w] = "process"

\* ---- C7
Snapshot ==
  [TotalFiles |-> fileCount, TotalDirs |-> dirCount,
   TotalErrors |-> errorCount, TotalSkipped |-> skippedCount,
   TotalBytes |-> bytesScanned]

\* C7: the result is built once, in a state where every worker has left, from
\* the counters as they are in that state; and a Start that has returned has
\* its result, whose totals of the workers' counters are final.
C7_ResultOnceAfterWorkers ==
  [][ /\ result' # result =>
           /\ result = NoResult
           /\ AllWorkersExited /\ wg = 0
           /\ result' = Snapshot
      /\ Returned' <=> result' # NoResult
      /\ Returned' =>
           /\ AllWorkersExited'
           /\ result'.TotalFiles = fileCount'
           /\ result'.TotalDirs = dirCount'
           /\ result'.TotalSkipped = skippedCount'
           /\ result'.TotalBytes = bytesScanned'
    ]_vars

C7_Witness ==
  /\ Returned /\ AllWorkersExited
  /\ result.TotalFiles > 0 /\ result.TotalErrors > 0

\* ---- C8
\* C8: once Start has returned the reporter has left its loop and has taken
\* no sample after the return.
C8_ReporterStoppedAtReturn ==
  Returned => (rpc = "exited" /\ ~lateSample)

\* ---- C9
\* the step in which worker w completes ProcessPath
ProcessStep(w) == wpc[w] = "process" /\ wpc'[w] = "select"

\* C9: ProcessPath on a path whose stat succeeds counts a directory in
\* dirCount only, any other entry in fileCount and bytesScanned only, and
\* leaves errorCount alone, for flagged and unflagged paths alike.
C9_ProcessPathSuccess ==
  [][ \A w \in Workers :
        (ProcessStep(w) /\ wpath[w] \notin statErr) =>
          /\ IF IsDir[wpath[w]]
             THEN /\ dirCount' = dirCount + 1
                  /\ fileCount' = fileCount
                  /\ bytesScanned' = bytesScanned
             ELSE /\ fileCount' = fileCount + 1
                  /\ bytesScanned' = bytesScanned + Size[wpath[w]]
                  /\ dirCount' = dirCount
          /\ errorCount' = errorCount
    ]_vars

\* a flagged directory, a flagged file and an unflagged file were processed
C9_Witness ==
  /\ statErr = {}
  /\ processed[2] = 1 /\ processed[3] = 1 /\ processed[4] = 1
  /\ ShouldSkipPath(PathOf(3)) /\ ShouldSkipPath(PathOf(4))
  /\ ~ShouldSkipPath(PathOf(2))
  /\ fileCount = 2 /\ bytesScanned = 5 /\ skippedCount = 2

\* ---- C10
\* C10: ProcessPath on a path whose stat fails adds one to errorCount, sets
\* lastError to the message for that path, leaves the other four counters
\* alone, and the worker goes back to its select (it has not left).
C10_ProcessPathStatFailure ==
  [][ \A w \in Workers :
        (ProcessStep(w) /\ wpath[w] \in statErr) =>
          /\ errorCount' = errorCount + 1
          /\ lastError' = <<"info", PathOf(wpath[w])>>
          /\ UNCHANGED <<fileCount, dirCount, bytesScanned, skippedCount>>
          /\ wpc'[w] = "select" /\ wg' = wg
    ]_vars

\* the stat of the flagged file failed, and an entry pushed after it has been
\* processed
C10_Witness ==
  /\ statErr = {4} /\ ShouldSkipPath(PathOf(4))
  /\ processed[4] = 1 /\ errorCount = 1
  /\ lastError = <<"info", PathOf(4)>>
  /\ processed[5] = 1 /\ dirCount = 3 /\ skippedCount = 1


\* ---- C11
DenyList ==
  { <<"/", "p", "r", "o", "c">>, <<"/", "s", "y", "s">>,
    <<"/", "d", "e", "v">>, <<"/", "r", "u", "n">>, <<"/", "t", "m", "p">>,
    <<"/", "v", "a", "r", "/", "r", "u", "n">>,
    <<"/", "v", "a", "r", "/", "l", "o", "c", "k">>,
    <<"/", "v", "a", "r", "/", "t", "m", "p">> }

\* p is e followed by the separator and anything
Below(p, e) ==
  /\ Len(p) > Len(e)
  /\ \A i \in 1..Len(e) : p[i] = e[i]
  /\ p[Len(e) + 1] = "/"

\* C11: ShouldSkipPath(p) is true exactly when p is an entry of the deny
\* list or an entry followed by '/'; /procfs and /var/log are not skipped.
C11_SkipIffDenied ==
  (call = "skip" /\ ret # <<>>) =>
    /\ ret[1] <=> \E e \in DenyList : arg = e \/ Below(arg, e)
    /\ arg = <<"/", "p", "r", "o", "c", "f", "s">> => ~ret[1]
    /\ arg = <<"/", "v", "a", "r", "/", "l", "o", "g">> => ~ret[1]

\* the call on /procfs, which shares a prefix with /proc, has answered false
C11_Witness ==
  /\ call = "skip"
  /\ arg = <<"/", "p", "r", "o", "c", "f", "s">>
  /\ ret = <<FALSE>>

\* ---- C12
\* float64(n) is n itself: n has at most 53 bits
Exact53(n) == 10 * (Len(n) - 1) + BitLen(n[Len(n)]) <= 53

\* C12: below 1024 the count is shown as it is with " B"; a count n of k + 2
\* digits to the base 1024, that is 1024^(k+1) <= n < 1024^(k+2), gets the
\* letter of index k of KMGTPE, k stays within 0..5 for an int64, and the
\* number shown is n / 1024^(k+1) in tenths: one of the two tenths
\* around it, and the nearer one whenever the float64 conversion of n is exact.
C12_FormatBytes ==
  (call = "format" /\ ret # <<>>) =>
    /\ IF Len(arg) = 1
       THEN ret[1] = [letter |-> "", num |-> arg[1]]
       ELSE LET k == Len(arg) - 2
                x == MulSmall(arg, 10, 1, 0)
                fl == Value(SubSeq(x, k + 2, Len(x)))
                c == CompareHalf(SubSeq(x, 1, k + 1))
            IN /\ k \in 0..5
               /\ ret[1].letter = <<"K", "M", "G", "T", "P", "E">>[k + 1]
               /\ ret[1].num \in {fl, fl + 1}
               /\ Exact53(arg) =>
                    /\ c > 0 => ret[1].num = fl + 1
                    /\ c < 0 => ret[1].num = fl
    /\ arg = <<0, 1>> => ret[1] = [letter |-> "K", num |-> 10]
    /\ arg = <<512, 1>> => ret[1] = [letter |-> "K", num |-> 15]
    /\ arg = <<0, 0, 1>> => ret[1] = [letter |-> "M", num |-> 10]

\* 1536 was formatted as 1.5 KB
C12_Witness ==
  /\ call = "format" /\ arg = <<512, 1>>
  /\ ret = <<[letter |-> "K", num |-> 15]>>

\* the largest counts of the input set were formatted with the letter E
C12_WitnessLarge ==
  /\ call = "format" /\ Len(arg) = Int64Digits /\ arg[Int64Digits] = 7
  /\ ret # <<>> /\ ret[1].letter = "E"


\* ---- C13
\* C13: once the signal is raised no worker takes a path from the queue.
C13_NoReceiveAfterCancel ==
  [][ cancelled =>
        \A w \in Workers : ~(wpc[w] = "select" /\ wpc'[w] = "process")
    ]_vars

\* ---- C14
\* the walker's steps: a turn of the walk loop (lstat and listing of the next
\* entry), the count of an error, a send
WalkReadStep == kpc = "walk" /\ kpc' = "check"
WalkErrorStep == kpc = "err" /\ kpc' # "err"
WalkSendStep == pushed' # pushed

\* C14: after the walker has seen the signal at its pre-visit check it
\* pushes nothing, counts no error and reads no further entry.
C14_WalkAbandoned ==
  [][ kseen => (~WalkSendStep /\ ~WalkErrorStep /\ ~WalkReadStep) ]_vars

\* ---- C15
\* C15: the walker eventually closes the queue, cancelled or not; once
\* closed it stays closed, the walker is done (no second close), and nothing
\* is pushed any more; only the walker's close step closes it.
C15_QueueClosedOnce ==
  /\ <>chanClosed
  /\ [](chanClosed => kpc = "done")
  /\ [][ /\ chanClosed => (chanClosed' /\ pushed' = pushed
                            /\ Len(pathChan') <= Len(pathChan))
         /\ chanClosed' # chanClosed => (kpc = "close" /\ kpc' = "done")
       ]_vars

\* the queue was closed in a cancelled scan with a path left in it
C15_Witness ==
  /\ chanClosed /\ cancelled /\ kseen
  /\ pathChan # <<>>

\* ---- C16
\* C16 as stated: every entry for which the callback is called with an error
\* is counted. The callback is always called for the root, so with an
\* unreadable root a finished walk has counted an error.
C16_EveryFailedEntryCounted ==
  (Root \in walkErr /\ kpc = "done") => errorCount >= 1

\* C16 amended: an entry the walker cannot visit whose callback does not
\* find the signal raised at its first select adds one to errorCount, sets
\* lastError, is not pushed, and the walk goes on; after an uncancelled scan
\* every entry reached was pushed once, except the unreadable ones, which
\* were counted.
C16_FailedEntryCountedWalkGoesOn ==
  [][ /\ (kpc = "check" /\ kerr /\ ~cancelled) => kpc' \in {"check", "err"}
      /\ WalkErrorStep =>
           /\ errorCount' = errorCount + 1
           /\ lastError' = <<"access", PathOf(kcur)>>
           /\ pushed' = pushed /\ pathChan' = pathChan
           /\ UNCHANGED <<fileCount, dirCount, skippedCount, bytesScanned>>
           /\ kpc' = IF \E i \in 1..Len(kstack) :
                          kstack[i][2] <= Len(Children(kstack[i][1]))
                     THEN "walk" ELSE "close"
      /\ (Returned /\ ~cancelled)' =>
           /\ \A n \in Nodes :
                pushed'[n] = IF n \in Visited /\ n \notin walkErr THEN 1 ELSE 0
           /\ result'.TotalErrors >= Cardinality(Visited \cap walkErr)
    ]_vars

\* /a could not be visited; its siblings /tmp and /tmpx and /tmp/f were
\* pushed all the same
C16_Witness ==
  /\ Returned /\ ~cancelled /\ walkErr = {2}
  /\ pushed[2] = 0 /\ pushed[3] = 1 /\ pushed[4] = 1 /\ pushed[5] = 1
  /\ result.TotalErrors = 1
  /\ lastError = <<"access", PathOf(2)>>

\* ---- C17
\* C17 (with the capacity QueueCap in place of 1000): the queue never holds
\* more than its capacity; the walker leaves its send only by appending its
\* path to a queue with room or on cancellation; the queue changes only by
\* that append or by a worker taking the head; and a walker at its send
\* eventually leaves it.
C17_BoundedQueue ==
  /\ [](Len(pathChan) <= QueueCap)
  /\ [][ /\ (kpc = "send" /\ kpc' # "send") =>
              \/ Len(pathChan) < QueueCap /\ pathChan' = Append(pathChan, kcur)
              \/ cancelled /\ pathChan' = pathChan
         /\ pathChan' # pathChan =>
              \/ kpc = "send" /\ pathChan' = Append(pathChan, kcur)
              \/ /\ pathChan # <<>> /\ pathChan' = Tail(pathChan)
                 /\ \E w \in Workers : wpath'[w] = Head(pathChan)
       ]_vars
  /\ (kpc = "send") ~> (kpc # "send")

\* the walker is blocked: queue full, no cancellation, every worker busy
C17_Witness ==
  /\ kpc = "send" /\ ~cancelled
  /\ Len(pathChan) = QueueCap
  /\ \A w \in Workers : wpc[w] = "process"

\* ---- C18
Flagged == {n \in Nodes : ShouldSkipPath(PathOf(n))}
Processed == {n \in Nodes : processed[n] = 1}

\* C18 as stated: after an uncancelled scan skippedCount is the number of
\* processed paths the classifier flags.
C18_SkipCountsEveryFlagged ==
  (Returned /\ ~cancelled) =>
    result.TotalSkipped = Cardinality(Processed \cap Flagged)

\* C18 amended: every ProcessPath adds one to skippedCount when the path is
\* flagged and its stat succeeded, and nothing otherwise; after an
\* uncancelled scan skippedCount is the number of processed flagged paths
\* whose stat succeeded.
C18_SkipCountsFlaggedStatOk ==
  [][ /\ \A w \in Workers :
           ProcessStep(w) =>
             skippedCount' =
               skippedCount + (IF wpath[w] \in Flagged \ statErr THEN 1 ELSE 0)
      /\ (Returned /\ ~cancelled)' =>
           result'.TotalSkipped =
             Cardinality((Processed' \cap Flagged) \ statErr)
    ]_vars

\* the flagged file's stat failed: only the flagged directory was counted
C18_Witness ==
  /\ Returned /\ ~cancelled
  /\ statErr = {4} /\ 4 \in Flagged /\ 4 \in Processed
  /\ result.TotalSkipped = 1 /\ result.TotalErrors = 1

\* ---- C19
\* C19 as stated: after Start has returned no counter changes.
C19_CountersFinal ==
  [][ Returned => UNCHANGED counters ]_vars

\* the extent of the late change: after Start has returned fileCount,
\* dirCount, skippedCount and bytesScanned never change; errorCount changes
\* at most once more, by one, in a cancelled scan, by the walker's error
\* count.
OnlyOneLateWalkerError ==
  [][ Returned =>
        /\ UNCHANGED <<fileCount, dirCount, skippedCount, bytesScanned>>
        /\ errorCount' # errorCount =>
             /\ cancelled /\ WalkErrorStep
             /\ errorCount = result.TotalErrors
             /\ errorCount' = errorCount + 1
    ]_vars

\* the walker has counted an error after Start returned
LateWalkerError ==
  /\ Returned /\ cancelled
  /\ errorCount = result.TotalErrors + 1

\* ---- C20
ZeroResult ==
  [TotalFiles |-> 0, TotalDirs |-> 0, TotalErrors |-> 0, TotalSkipped |-> 0,
   TotalBytes |-> 0]

\* C20: when Stop() was called before Start nothing is ever pushed or
\* processed, every counter stays 0, and the result Start returns is all 0.
C20_StopBeforeStartNoWork ==
  preStop =>
    /\ \A n \in Nodes : pushed[n] = 0 /\ processed[n] = 0
    /\ pathChan = <<>>
    /\ \A i \in 1..Len(counters) : counters[i] = 0
    /\ Returned => result = ZeroResult

\* Start has returned from a scan of an unreadable root stopped beforehand
C20_Witness ==
  /\ preStop /\ Returned
  /\ walkErr = {Root}
  /\ kpc = "done" /\ result = ZeroResult

====
